---- MODULE Spec2Model ----
(***************************************************************************)
(* The Brunel (2000) network script src/brunel.ipynb, cell by cell: the    *)
(* calibration chain (ComputePSPnorm, J_ex, J_in, nu_th, p_rate), the      *)
(* build (SetDefaults, Create, CopyModel, Connect), the run (Simulate)     *)
(* and the read-out (n_events, rates, num_connections).                    *)
(*                                                                         *)
(* Numbers.  Python floats are modelled as exact rationals <<n, d>> (d > 0,*)
(* lowest terms) tagged "fin", or as "inf" / "nan"; "raise" stands for a   *)
(* raised ZeroDivisionError.  Rounding and the sign of zero are left out.  *)
(* Values that carry the factor e = exp(1) (nu_th, nu_ex, p_rate) are kept *)
(* as their rational coefficient of 1/e.                                   *)
(*                                                                         *)
(* Engine.  The simulation kernel (NEST 3.5, named by the notebook's       *)
(* banner) is modelled at the calls the script makes: node ids are handed  *)
(* out in creation order, a Connect without a rule is all_to_all, the      *)
(* fixed_indegree rule draws, for each target in turn, indegree sources    *)
(* from the kernel's random generator with allow_autapses and              *)
(* allow_multapses at their defaults (true).  The generator (a Mersenne    *)
(* twister in the engine) is abstracted to a small linear congruential     *)
(* generator; ResetKernel puts it back to the kernel's default seed.       *)
(***************************************************************************)
EXTENDS Integers, Sequences, FiniteSets, Bags, TLC

(* ------------------------------ bounds --------------------------------- *)

MaxOrder == 2
MaxEpsNum == 6
MaxNRec == 2
NumSeeds == 6
MaxEvents == 1
MaxRuns == 2

(* ------------------------- rational arithmetic ------------------------- *)

Abs(x) == IF x < 0 THEN -x ELSE x

Min(a, b) == IF a <= b THEN a ELSE b

RECURSIVE Gcd(_, _)
Gcd(a, b) == IF b = 0 THEN a ELSE Gcd(b, a % b)

\* the rational n/d (d # 0) in lowest terms with a positive denominator
Rat(n, d) ==
    LET g == Gcd(Abs(n), Abs(d))
        s == IF d < 0 THEN -1 ELSE 1
    IN  << (s * n) \div g, (s * d) \div g >>

RMul(x, y) == Rat(x[1] * y[1], x[2] * y[2])
RDiv(x, y) == Rat(x[1] * y[2], x[2] * y[1])
RSub(x, y) == Rat(x[1] * y[2] - y[1] * x[2], x[2] * y[2])
RNeg(x) == << -x[1], x[2] >>
RAbs(x) == << Abs(x[1]), x[2] >>
RSign(x) == IF x[1] > 0 THEN 1 ELSE IF x[1] < 0 THEN -1 ELSE 0
RInt(i) == << i, 1 >>

(* ------------------------------ floats --------------------------------- *)

Fin(x) == [k |-> "fin", v |-> x]
Inf(s) == [k |-> "inf", v |-> RInt(s)]
NaN == [k |-> "nan", v |-> RInt(0)]
Raise == [k |-> "raise", v |-> RInt(0)]
FInt(i) == Fin(RInt(i))

IsFinite(x) == x.k = "fin"
IsZero(x) == x.k = "fin" /\ x.v[1] = 0
FSign(x) == IF x.k = "nan" \/ x.k = "raise" THEN 0 ELSE RSign(x.v)

\* IEEE product
FMul(x, y) ==
    IF x.k = "raise" \/ y.k = "raise" THEN Raise
    ELSE IF x.k = "nan" \/ y.k = "nan" THEN NaN
    ELSE IF x.k = "fin" /\ y.k = "fin" THEN Fin(RMul(x.v, y.v))
    ELSE IF FSign(x) * FSign(y) = 0 THEN NaN
    ELSE Inf(FSign(x) * FSign(y))

FNeg(x) == IF x.k \in {"fin", "inf"} THEN [x EXCEPT !.v = RNeg(x.v)] ELSE x

\* x / y when both operands are Python floats: a zero divisor raises
PyFloatDiv(x, y) ==
    IF x.k = "raise" \/ y.k = "raise" THEN Raise
    ELSE IF IsZero(y) THEN Raise
    ELSE IF x.k = "nan" \/ y.k = "nan" THEN NaN
    ELSE IF x.k = "fin" /\ y.k = "fin" THEN Fin(RDiv(x.v, y.v))
    ELSE IF x.k = "inf" /\ y.k = "inf" THEN NaN
    ELSE IF x.k = "inf" THEN Inf(FSign(x) * FSign(y))
    ELSE FInt(0)

\* x / y when an operand is a numpy.float64: a zero divisor gives inf or
\* nan (with a RuntimeWarning), never an exception
NpFloatDiv(x, y) ==
    IF x.k = "raise" \/ y.k = "raise" THEN Raise
    ELSE IF x.k = "nan" \/ y.k = "nan" THEN NaN
    ELSE IF IsZero(y) THEN (IF IsZero(x) THEN NaN ELSE Inf(FSign(x)))
    ELSE IF x.k = "fin" /\ y.k = "fin" THEN Fin(RDiv(x.v, y.v))
    ELSE IF x.k = "inf" /\ y.k = "inf" THEN NaN
    ELSE IF x.k = "inf" THEN Inf(FSign(x) * FSign(y))
    ELSE FInt(0)

\* int(x) of a non-negative rational
IntOf(x) == x[1] \div x[2]

(* ------------------------- script parameters --------------------------- *)

simtime == 1000
delay == Rat(3, 2)
eta == Rat(9, 10)
tauMem == 20
CMem == 250
theta == 20

\* the configurations explored.  The notebook's literals are order = 2500,
\* epsilon = 0.1, N_rec = 50, tauSyn = 0.5, J = 0.1, g = 4.5; norm is the
\* value ComputePSPnorm's closed form takes.  The sizes vary with the
\* calibration inputs at the notebook's, and the calibration inputs vary
\* with a small network; N_rec stays within the smaller population.
SizeConfigs ==
    { c \in [ order  : 1..MaxOrder,
              epsNum : 0..MaxEpsNum,
              N_rec  : 1..MaxNRec,
              tauSyn : {Rat(1, 2)},
              J      : {Rat(1, 10)},
              g      : {Rat(9, 2)},
              norm   : {Rat(1, 2)} ] :
        c.N_rec <= c.order }

CalibrationConfigs ==
    [ order  : {1},
      epsNum : {2},
      N_rec  : {1},
      tauSyn : {Rat(1, 2), RInt(tauMem)},
      J      : {Rat(1, 10), RInt(0), Rat(-1, 10)},
      g      : {Rat(9, 2), Rat(1, 2), RInt(-1)},
      norm   : {Rat(1, 2), RInt(3)} ]

Configs == SizeConfigs \cup CalibrationConfigs

Seeds == 0..(NumSeeds - 1)

VARIABLES
    cfg, seed, pc, error, run,
    NE, NI, N_neurons, N_rec, CE, CI,
    J_unit, J_ex, J_in, nu_th, nu_ex, p_rate,
    nodes, nodes_ex, nodes_in, noise, espikes, ispikes,
    models, conns, rng, tpos, simulated, n_events,
    events_ex, events_in, rate_ex, rate_in,
    num_synapses_ex, num_synapses_in, num_synapses,
    reads_ex, reads_in, prev_conns

pyvars == << NE, NI, N_neurons, N_rec, CE, CI >>
calvars == << J_unit, J_ex, J_in, nu_th, nu_ex, p_rate >>
handles == << nodes_ex, nodes_in, noise, espikes, ispikes >>
kernel == << nodes, models, conns, rng, tpos, simulated, n_events >>
outvars == << events_ex, events_in, rate_ex, rate_in,
              num_synapses_ex, num_synapses_in, num_synapses >>
hist == << reads_ex, reads_in, prev_conns, run >>
vars == << cfg, seed, pc, error, pyvars, calvars, handles, kernel, outvars, hist >>


(* ---------------------------- the cells -------------------------------- *)

\* the event counts read before the run
CellOrder_ReadFirst ==
    << "reset", "numerosity", "synapses", "calibrate", "drive",
       "kernel_status", "set_defaults", "create", "label", "copy_model",
       "connect_noise", "connect_rec", "connect_ex", "connect_in",
       "endbuild", "read_events", "simulate", "rates", "count_synapses",
       "report" >>

\* the code cells in notebook order, named by what each does; the cells
\* that only take time stamps or draw the raster plot are left out
CellOrder ==
    << "reset", "numerosity", "synapses", "calibrate", "drive",
       "kernel_status", "set_defaults", "create", "label", "copy_model",
       "connect_noise", "connect_rec", "connect_ex", "connect_in",
       "endbuild", "simulate", "read_events", "rates", "count_synapses",
       "report" >>

IndexOf(c) == CHOOSE i \in 1..Len(CellOrder) : CellOrder[i] = c

\* the cell run after cell c ("done" after the last one)
After(c) ==
    IF IndexOf(c) = Len(CellOrder) THEN "done" ELSE CellOrder[IndexOf(c) + 1]

\* cells whose turn comes before cell c
Before(c) == { CellOrder[i] : i \in 1..(IndexOf(c) - 1) }

\* an uncaught exception in a cell stops the execution of the notebook
Abort(e) == pc' = "aborted" /\ error' = e

Goto(c) == pc' = After(c) /\ error' = error

(* ------------------------------ engine --------------------------------- *)

\* the models of a fresh kernel that the script uses, with the defaults
\* it goes on to change
BuiltinModels ==
    [ m \in {"static_synapse", "poisson_generator"} |->
        IF m = "static_synapse"
        THEN [weight |-> FInt(1), delay |-> FInt(1)]
        ELSE [rate |-> FInt(0)] ]

NextRng(r) == (33 * r + 17) % 251

\* a draw from 0..n-1 out of generator state r
Ulrand(r, n) == r % n

\* nest.Create(model, n) appends n nodes; ids follow the creation order
AddNodes(ns, model, n, rate) ==
    ns \o [ i \in 1..n |-> [model |-> model, rate |-> rate] ]

\* the connections of an all_to_all Connect(sources, targets, syn)
AllToAll(sources, targets, syn) ==
    LET pairs == { << sources[i], targets[j], syn >> :
                      i \in 1..Len(sources), j \in 1..Len(targets) }
    IN  SetToBag(pairs)

\* multapses prohibited
ConnSpecDefaults_NoMultapses == [allow_autapses |-> TRUE, allow_multapses |-> FALSE]

\* defaults of a connection rule's options
ConnSpecDefaults == [allow_autapses |-> TRUE, allow_multapses |-> TRUE]

\* one accepted source for target tgt: redrawn while it is a prohibited
\* autapse or multapse
RECURSIVE DrawSource(_, _, _, _, _)
DrawSource(sources, tgt, chosen, spec, r) ==
    LET r1 == NextRng(r)
        s_id == Ulrand(r1, Len(sources))
        snode == sources[s_id + 1]
        skip == \/ (~spec.allow_autapses /\ snode = tgt)
                \/ (~spec.allow_multapses /\ s_id \in chosen)
    IN  IF skip THEN DrawSource(sources, tgt, chosen, spec, r1)
        ELSE [s_id |-> s_id, rng |-> r1]

\* draws j+1 .. indegree of target tgt
RECURSIVE InnerConnect(_, _, _, _, _, _, _, _, _)
InnerConnect(sources, tgt, j, indegree, chosen, spec, syn, c, r) ==
    IF j >= indegree THEN [conns |-> c, rng |-> r]
    ELSE LET d == DrawSource(sources, tgt, chosen, spec, r)
         IN  InnerConnect(sources, tgt, j + 1, indegree,
                          IF spec.allow_multapses THEN chosen
                          ELSE chosen \cup {d.s_id},
                          spec, syn,
                          c (+) SetToBag({ << sources[d.s_id + 1], tgt, syn >> }),
                          d.rng)

\* the checks made when the connection builder is set up
BuilderError(sources, indegree, spec) ==
    \/ Len(sources) = 0
    \/ (~spec.allow_multapses /\ indegree > Len(sources))
    \/ indegree < 0

\* the draws of one target: the connections and the generator afterwards
ConnectTarget(sources, tgt, indegree, spec, syn, c, r) ==
    InnerConnect(sources, tgt, 0, indegree, {}, spec, syn, c, r)

\* GetDefaults(syn)["num_connections"]
NumConnections(syn) ==
    BagCardinality([ e \in { x \in BagToSet(conns) : x[3] = syn } |-> conns[e] ])

(* ------------------------------- Init ---------------------------------- *)

Unset == FInt(0)

Init ==
    /\ cfg \in Configs
    /\ seed \in Seeds
    /\ pc = "reset"
    /\ error = "none"
    /\ run = 1
    /\ NE = 0 /\ NI = 0 /\ N_neurons = 0 /\ N_rec = 0 /\ CE = 0 /\ CI = 0
    /\ J_unit = Unset /\ J_ex = Unset /\ J_in = Unset
    /\ nu_th = Unset /\ nu_ex = Unset /\ p_rate = Unset
    /\ nodes = << >> /\ nodes_ex = << >> /\ nodes_in = << >>
    /\ noise = << >> /\ espikes = << >> /\ ispikes = << >>
    /\ models = BuiltinModels
    /\ conns = EmptyBag
    /\ rng = seed
    /\ tpos = 0
    /\ simulated = FALSE
    /\ n_events = << >>
    /\ events_ex = 0 /\ events_in = 0
    /\ rate_ex = Unset /\ rate_in = Unset
    /\ num_synapses_ex = 0 /\ num_synapses_in = 0 /\ num_synapses = 0
    /\ reads_ex = 0 /\ reads_in = 0
    /\ prev_conns = EmptyBag

(* ------------------------------ actions -------------------------------- *)

\* a reset that leaves the generator where it is
ResetRng_Kept == rng

\* the random generator of a reset kernel: back at the default seed
ResetRng == seed

\* cell 2: nest.ResetKernel()
ResetKernel ==
    /\ pc = "reset"
    /\ nodes' = << >>
    /\ models' = BuiltinModels
    /\ conns' = EmptyBag
    /\ rng' = ResetRng
    /\ tpos' = 0
    /\ simulated' = FALSE
    /\ n_events' = << >>
    /\ Goto("reset")
    /\ UNCHANGED << cfg, seed, pyvars, calvars, handles, outvars, hist >>

\* cell 6: order, NE, NI, N_neurons, N_rec
Numerosity ==
    /\ pc = "numerosity"
    /\ NE' = 4 * cfg.order
    /\ NI' = 1 * cfg.order
    /\ N_neurons' = NE' + NI'
    /\ N_rec' = cfg.N_rec
    /\ Goto("numerosity")
    /\ UNCHANGED << cfg, seed, CE, CI, calvars, handles, kernel, outvars, hist >>

\* the connection probability, in quarters
epsilon == Rat(cfg.epsNum, 4)

\* cell 7: CE, CI
SynapseNumerosity ==
    /\ pc = "synapses"
    /\ CE' = IntOf(RMul(epsilon, RInt(NE)))
    /\ CI' = IntOf(RMul(epsilon, RInt(NI)))
    /\ Goto("synapses")
    /\ UNCHANGED << cfg, seed, NE, NI, N_neurons, N_rec, calvars, handles,
                    kernel, outvars, hist >>

FSub(x, y) == IF x.k = "fin" /\ y.k = "fin" THEN Fin(RSub(x.v, y.v)) ELSE NaN

\* ComputePSPnorm(tauMem, CMem, tauSyn): 1.0 / b raises when b = 0; the
\* value of the closed form (Lambert W) is the configuration's norm
ComputePSPnorm(tm, cm, ts) ==
    LET a == PyFloatDiv(tm, ts)
        b == FSub(PyFloatDiv(FInt(1), ts), PyFloatDiv(FInt(1), tm))
        inv_b == PyFloatDiv(FInt(1), b)
    IN  IF inv_b.k = "raise" THEN Raise ELSE Fin(cfg.norm)

\* J_ex = J / J_unit, with J_unit a numpy.float64
ExcWeight(junit) == NpFloatDiv(Fin(cfg.J), junit)

\* the inhibitory weight without its sign
InhWeight_Unsigned(jex) == FMul(Fin(cfg.g), jex)

\* J_in = -g * J_ex
InhWeight(jex) == FMul(FNeg(Fin(cfg.g)), jex)

\* cell 8: neuron_params, J, J_unit, J_ex, J_in
Calibrate ==
    /\ pc = "calibrate"
    /\ LET ju == ComputePSPnorm(FInt(tauMem), FInt(CMem), Fin(cfg.tauSyn))
       IN  IF ju.k = "raise"
           THEN /\ Abort("ZeroDivisionError")
                /\ UNCHANGED calvars
           ELSE /\ J_unit' = ju
                /\ J_ex' = ExcWeight(ju)
                /\ J_in' = InhWeight(J_ex')
                /\ Goto("calibrate")
                /\ UNCHANGED << nu_th, nu_ex, p_rate >>
    /\ UNCHANGED << cfg, seed, pyvars, handles, kernel, outvars, hist >>

\* nu_th divided as Python floats divide
ThresholdRate_PyFloat ==
    PyFloatDiv(FInt(theta * CMem),
               FMul(FMul(FMul(J_ex, FInt(CE)), FInt(tauMem)), Fin(cfg.tauSyn)))

\* nu_th, as the coefficient of 1/e: the divisor is a numpy.float64
\* (J_ex and exp(1) are), so a zero divisor does not raise
ThresholdRate ==
    NpFloatDiv(FInt(theta * CMem),
               FMul(FMul(FMul(J_ex, FInt(CE)), FInt(tauMem)), Fin(cfg.tauSyn)))

\* cell 9: nu_th, nu_ex, p_rate
DriveRate ==
    /\ pc = "drive"
    /\ LET nu == ThresholdRate
       IN  IF nu.k = "raise"
           THEN /\ Abort("ZeroDivisionError")
                /\ UNCHANGED calvars
           ELSE /\ nu_th' = nu
                /\ nu_ex' = FMul(Fin(eta), nu)
                /\ p_rate' = FMul(FMul(FInt(1000), nu_ex'), FInt(CE))
                /\ Goto("drive")
                /\ UNCHANGED << J_unit, J_ex, J_in >>
    /\ UNCHANGED << cfg, seed, pyvars, handles, kernel, outvars, hist >>


\* cell 10: nest.SetKernelStatus (resolution, print_time, overwrite_files)
SetKernelStatus ==
    /\ pc = "kernel_status"
    /\ Goto("kernel_status")
    /\ UNCHANGED << cfg, seed, pyvars, calvars, handles, kernel, outvars, hist >>

\* cell 11: nest.SetDefaults; the generator refuses a negative rate
SetDefaults ==
    /\ pc = "set_defaults"
    /\ IF FSign(p_rate) < 0
       THEN /\ Abort("BadProperty: rate")
            /\ UNCHANGED models
       ELSE /\ models' = [models EXCEPT !["poisson_generator"] = [rate |-> p_rate]]
            /\ Goto("set_defaults")
    /\ UNCHANGED << cfg, seed, pyvars, calvars, handles, nodes, conns, rng,
                    tpos, simulated, n_events, outvars, hist >>

\* cell 12: the five nest.Create calls
Create ==
    /\ pc = "create"
    /\ nodes_ex' = [ i \in 1..NE |-> Len(nodes) + i ]
    /\ nodes_in' = [ i \in 1..NI |-> Len(nodes) + NE + i ]
    /\ noise' = << Len(nodes) + NE + NI + 1 >>
    /\ espikes' = << Len(nodes) + NE + NI + 2 >>
    /\ ispikes' = << Len(nodes) + NE + NI + 3 >>
    /\ nodes' = AddNodes(AddNodes(AddNodes(AddNodes(
                    nodes, "iaf_psc_alpha", NE, FInt(0)),
                           "iaf_psc_alpha", NI, FInt(0)),
                           "poisson_generator", 1, models["poisson_generator"].rate),
                           "spike_recorder", 2, FInt(0))
    /\ n_events' = [ r \in {espikes'[1], ispikes'[1]} |-> 0 ]
    /\ Goto("create")
    /\ UNCHANGED << cfg, seed, pyvars, calvars, models, conns, rng, tpos,
                    simulated, outvars, hist >>

\* cell 13: labels and record_to of the two recorders
LabelRecorders ==
    /\ pc = "label"
    /\ Goto("label")
    /\ UNCHANGED << cfg, seed, pyvars, calvars, handles, kernel, outvars, hist >>

\* cell 14: the two nest.CopyModel calls
CopyModel ==
    /\ pc = "copy_model"
    /\ models' = [ m \in DOMAIN models \cup {"excitatory", "inhibitory"} |->
                     IF m = "excitatory" THEN [weight |-> J_ex, delay |-> Fin(delay)]
                     ELSE IF m = "inhibitory" THEN [weight |-> J_in, delay |-> Fin(delay)]
                     ELSE models[m] ]
    /\ Goto("copy_model")
    /\ UNCHANGED << cfg, seed, pyvars, calvars, handles, nodes, conns, rng,
                    tpos, simulated, n_events, outvars, hist >>

\* the drive connected to the excitatory population twice
NoiseConnections_ExTwice ==
    AllToAll(noise, nodes_ex, "excitatory") (+) AllToAll(noise, nodes_ex, "excitatory")

\* the connections of cell 15
NoiseConnections ==
    AllToAll(noise, nodes_ex, "excitatory") (+) AllToAll(noise, nodes_in, "excitatory")

\* cell 15: the drive onto both populations
ConnectNoise ==
    /\ pc = "connect_noise"
    /\ conns' = conns (+) NoiseConnections
    /\ Goto("connect_noise")
    /\ UNCHANGED << cfg, seed, pyvars, calvars, handles, nodes, models, rng,
                    tpos, simulated, n_events, outvars, hist >>

\* the recorder connections made with the engine's default synapse model
RecorderConnections_Static ==
    AllToAll(SubSeq(nodes_ex, 1, N_rec), espikes, "static_synapse")
        (+) AllToAll(SubSeq(nodes_in, 1, N_rec), ispikes, "static_synapse")

\* the connections of cell 16
RecorderConnections ==
    AllToAll(SubSeq(nodes_ex, 1, N_rec), espikes, "excitatory")
        (+) AllToAll(SubSeq(nodes_in, 1, N_rec), ispikes, "excitatory")

\* cell 16: the first N_rec neurons of each population onto its recorder
ConnectRecorders ==
    /\ pc = "connect_rec"
    /\ conns' = conns (+) RecorderConnections
    /\ Goto("connect_rec")
    /\ UNCHANGED << cfg, seed, pyvars, calvars, handles, nodes, models, rng,
                    tpos, simulated, n_events, outvars, hist >>

\* the excitatory call given the inhibitory in-degree
conn_params_ex_WrongDegree == [rule |-> "fixed_indegree", indegree |-> CI]

conn_params_ex == [rule |-> "fixed_indegree", indegree |-> CE]
conn_params_in == [rule |-> "fixed_indegree", indegree |-> CI]

\* the targets cut down to the excitatory population
NetworkTargets_OnlyEx == nodes_ex

\* nodes_ex + nodes_in
NetworkTargets == nodes_ex \o nodes_in

\* the excitatory call drawing its sources from both populations
ExcitatorySources_All == nodes_ex \o nodes_in

\* the sources of the nest.Connect calls of cells 17 and 18
ExcitatorySources == nodes_ex
InhibitorySources == nodes_in

\* Connect(sources, targets, {"rule": "fixed_indegree", "indegree": k}, syn)
\* as the cell at c: the builder's checks, then one target after the
\* other; tpos counts the targets done
FixedInDegree(c, sources, targets, indegree, spec, syn) ==
    /\ pc = c
    /\ IF tpos = 0 /\ BuilderError(sources, indegree, spec)
       THEN /\ Abort("BadProperty: indegree")
            /\ UNCHANGED << conns, rng, tpos >>
       ELSE LET res == ConnectTarget(sources, targets[tpos + 1], indegree,
                                     spec, syn, conns, rng)
            IN  /\ conns' = res.conns
                /\ rng' = res.rng
                /\ IF tpos + 1 = Len(targets)
                   THEN tpos' = 0 /\ Goto(c)
                   ELSE tpos' = tpos + 1 /\ UNCHANGED << pc, error >>
    /\ UNCHANGED << cfg, seed, pyvars, calvars, handles, nodes, models,
                    simulated, n_events, outvars, hist >>

\* cell 17: excitatory projections
ConnectEx ==
    FixedInDegree("connect_ex", ExcitatorySources, NetworkTargets,
                  conn_params_ex.indegree, ConnSpecDefaults, "excitatory")

\* cell 18: inhibitory projections
ConnectIn ==
    FixedInDegree("connect_in", InhibitorySources, NetworkTargets,
                  conn_params_in.indegree, ConnSpecDefaults, "inhibitory")

\* cell 19: endbuild
EndBuild ==
    /\ pc = "endbuild"
    /\ Goto("endbuild")
    /\ UNCHANGED << cfg, seed, pyvars, calvars, handles, kernel, outvars, hist >>

\* cell 20, the run completes: the recorders hold the counts the engine
\* arrived at
SimulateDone ==
    /\ pc = "simulate"
    /\ simulated' = TRUE
    /\ n_events' \in [ DOMAIN n_events -> 0..MaxEvents ]
    /\ Goto("simulate")
    /\ UNCHANGED << cfg, seed, pyvars, calvars, handles, nodes, models, conns,
                    rng, tpos, outvars, hist >>

\* cell 20, the run fails: the outcome of drawing from a Poisson
\* distribution of non-finite rate is not defined by the engine
SimulateFails ==
    /\ pc = "simulate"
    /\ ~IsFinite(nodes[noise[1]].rate)
    /\ Abort("EngineError")
    /\ UNCHANGED << cfg, seed, pyvars, calvars, handles, kernel, outvars, hist >>

\* cell 22: the two n_events reads
ReadEvents ==
    /\ pc = "read_events"
    /\ events_ex' = n_events[espikes[1]]
    /\ events_in' = n_events[ispikes[1]]
    /\ reads_ex' = reads_ex + 1
    /\ reads_in' = reads_in + 1
    /\ Goto("read_events")
    /\ UNCHANGED << cfg, seed, pyvars, calvars, handles, kernel, rate_ex,
                    rate_in, num_synapses_ex, num_synapses_in, num_synapses,
                    prev_conns, run >>

\* events / simtime * 1000.0 / N_rec
Rate(events) ==
    PyFloatDiv(FMul(PyFloatDiv(FInt(events), FInt(simtime)), FInt(1000)),
               FInt(N_rec))

\* cell 23: rate_ex, rate_in
Rates ==
    /\ pc = "rates"
    /\ rate_ex' = Rate(events_ex)
    /\ rate_in' = Rate(events_in)
    /\ Goto("rates")
    /\ UNCHANGED << cfg, seed, pyvars, calvars, handles, kernel, events_ex,
                    events_in, num_synapses_ex, num_synapses_in, num_synapses,
                    hist >>

\* cell 24: num_synapses_ex, num_synapses_in, num_synapses
CountSynapses ==
    /\ pc = "count_synapses"
    /\ num_synapses_ex' = NumConnections("excitatory")
    /\ num_synapses_in' = NumConnections("inhibitory")
    /\ num_synapses' = num_synapses_ex' + num_synapses_in'
    /\ Goto("count_synapses")
    /\ UNCHANGED << cfg, seed, pyvars, calvars, handles, kernel, events_ex,
                    events_in, rate_ex, rate_in, hist >>

\* cell 26: the printed summary
Report ==
    /\ pc = "report"
    /\ Goto("report")
    /\ UNCHANGED << cfg, seed, pyvars, calvars, handles, kernel, outvars, hist >>

\* the notebook is executed again from its first cell, in the same Python
\* session: the variables and the kernel stay as they are until the cells
\* assign and reset them
Rerun ==
    /\ pc \in {"done", "aborted"}
    /\ run < MaxRuns
    /\ run' = run + 1
    /\ prev_conns' = conns
    /\ reads_ex' = 0
    /\ reads_in' = 0
    /\ pc' = CellOrder[1]
    /\ error' = "none"
    /\ UNCHANGED << cfg, seed, pyvars, calvars, handles, kernel, outvars >>

Next ==
    \/ ResetKernel
    \/ Numerosity
    \/ SynapseNumerosity
    \/ Calibrate
    \/ DriveRate
    \/ SetKernelStatus
    \/ SetDefaults
    \/ Create
    \/ LabelRecorders
    \/ CopyModel
    \/ ConnectNoise
    \/ ConnectRecorders
    \/ ConnectEx
    \/ ConnectIn
    \/ EndBuild
    \/ SimulateDone
    \/ SimulateFails
    \/ ReadEvents
    \/ Rates
    \/ CountSynapses
    \/ Report

Spec == Init /\ [][Next]_vars

NextRerun == Next \/ Rerun

SpecRerun == Init /\ [][NextRerun]_vars


(* ------------------------- reading the state --------------------------- *)

Range(f) == { f[i] : i \in DOMAIN f }

Cells == Range(CellOrder)

\* cell c has run to its end in this execution, and no cell has raised
Completed(c) ==
    \/ pc = "done"
    \/ pc \in Cells /\ IndexOf(pc) > IndexOf(c)

Pex == Range(nodes_ex)
Pin == Range(nodes_in)
Neurons == Pex \cup Pin

\* the sources among S of the connections of class syn into t
SourcesOf(t, S, syn) ==
    { s \in S : BagIn(<< s, t, syn >>, conns) }

\* the number of connections of class syn from S into t
InDegree(t, S, syn) ==
    BagCardinality([ e \in { x \in BagToSet(conns) :
                               x[1] \in S /\ x[2] = t /\ x[3] = syn } |-> conns[e] ])

\* the connections between neurons, of either class
NetworkEdges ==
    [ e \in { x \in BagToSet(conns) : x[1] \in Neurons /\ x[2] \in Neurons }
        |-> conns[e] ]

\* floor(epsilon * n), from the configuration
FloorEps(n) == (cfg.epsNum * n) \div 4

(* ------------------------------ claims --------------------------------- *)

\* C1: once both fixed_indegree Connect calls have run, every neuron has
\* exactly floor(epsilon*NE) incoming excitatory connections from Pex and
\* exactly floor(epsilon*NI) incoming inhibitory connections from Pin,
\* whatever the seed.
C1_FixedInDegree ==
    Completed("connect_in") =>
        /\ CE = FloorEps(4 * cfg.order)
        /\ CI = FloorEps(cfg.order)
        /\ \A t \in Neurons :
              /\ InDegree(t, Pex, "excitatory") = FloorEps(4 * cfg.order)
              /\ InDegree(t, Pin, "inhibitory") = FloorEps(cfg.order)

C1_Witness ==
    /\ Completed("connect_in")
    /\ CE >= 2 /\ CI >= 1
    /\ Cardinality(Neurons) = NE + NI
    /\ \E t \in Neurons : InDegree(t, Pex, "excitatory") = CE

\* C2: the two network Connect calls create (NE+NI)*CE excitatory plus
\* (NE+NI)*CI inhibitory connections between neurons, a number that does
\* not depend on the seed.
C2_EdgeCount ==
    Completed("connect_in") =>
        /\ BagCardinality(NetworkEdges) = NE * CE + NI * CE + NE * CI + NI * CI
        /\ BagCardinality(NetworkEdges)
              = 5 * cfg.order * (FloorEps(4 * cfg.order) + FloorEps(cfg.order))

C2_Witness ==
    /\ Completed("connect_in")
    /\ CE > 0 /\ CI > 0
    /\ BagCardinality(NetworkEdges) = (NE + NI) * (CE + CI)

\* C3, as stated: the reported num_synapses is the network connections
\* plus the N_neurons drive connections and nothing else.
C3_Original ==
    Completed("count_synapses") =>
        num_synapses = (NE + NI) * CE + (NE + NI) * CI + N_neurons

\* C3, amended: the reported num_synapses also counts the 2*N_rec
\* neuron-to-recorder connections, which are made with the excitatory
\* class: num_synapses = (NE+NI)*CE + (NE+NI)*CI + N_neurons + 2*N_rec.
C3_Amended ==
    Completed("count_synapses") =>
        /\ num_synapses_ex = (NE + NI) * CE + N_neurons + 2 * N_rec
        /\ num_synapses_in = (NE + NI) * CI
        /\ num_synapses = (NE + NI) * CE + (NE + NI) * CI + N_neurons + 2 * N_rec

C3_Witness ==
    /\ pc = "done"
    /\ CE > 0 /\ CI > 0
    /\ num_synapses = (NE + NI) * (CE + CI) + N_neurons + 2 * N_rec

TargetJex == RDiv(cfg.J, cfg.norm)
TargetJin == RNeg(RMul(cfg.g, TargetJex))

\* C6: for J # 0 and g > 0 the calibrated J_in has the sign opposite to
\* J_ex and |J_in| = g * |J_ex|; the synapse classes "excitatory" and
\* "inhibitory" are created with the weights J/norm and -g*J/norm (the
\* first positive and the second negative when J/norm > 0) and one delay.
C6_Weights ==
    /\ (Completed("calibrate") /\ cfg.J[1] # 0 /\ cfg.g[1] > 0) =>
          /\ IsFinite(J_ex) /\ IsFinite(J_in)
          /\ FSign(J_ex) # 0
          /\ FSign(J_in) = -FSign(J_ex)
          /\ RAbs(J_in.v) = RMul(cfg.g, RAbs(J_ex.v))
    /\ Completed("copy_model") =>
          /\ models["excitatory"].weight = Fin(TargetJex)
          /\ models["inhibitory"].weight = Fin(TargetJin)
          /\ models["excitatory"].delay = models["inhibitory"].delay
          /\ (RSign(TargetJex) > 0 /\ cfg.g[1] > 0) =>
                /\ FSign(models["excitatory"].weight) > 0
                /\ FSign(models["inhibitory"].weight) < 0

C6_Witness ==
    /\ Completed("copy_model")
    /\ cfg.J[1] > 0 /\ cfg.g[1] > 0
    /\ models["excitatory"].weight = J_ex
    /\ models["inhibitory"].weight = J_in
    /\ FSign(J_in) < 0

C8_Drive ==
    Completed("connect_noise") =>
        /\ Len(noise) = 1
        /\ { i \in DOMAIN nodes : nodes[i].model = "poisson_generator" } = Range(noise)
        /\ Cardinality(Neurons) = NE + NI
        /\ \A t \in Neurons :
              /\ CopiesIn(<< noise[1], t, "excitatory" >>, conns) = 1
              /\ CopiesIn(<< noise[1], t, "inhibitory" >>, conns) = 0
        /\ \A e \in BagToSet(conns) : e[1] = noise[1] => e[3] = "excitatory"
        /\ models["excitatory"].weight = J_ex

C8_Witness ==
    /\ Completed("endbuild")
    /\ NI >= 2
    /\ \A t \in Neurons : InDegree(t, Range(noise), "excitatory") = 1

BuildCells ==
    { "set_defaults", "create", "copy_model", "connect_noise", "connect_rec", "connect_ex",
      "connect_in" }

\* C10: nodes, model defaults, synapse classes and connections change only
\* in the build cells, before the run and after the calibration; the run changes none
\* of them and starts after the build has ended; each recorder's event
\* count is read once, after the run, and has been read exactly once
\* when the execution is done.
C10_Phases ==
    /\ [](pc = "done" => simulated /\ reads_ex = 1 /\ reads_in = 1)
    /\ [][ /\ (nodes' # nodes \/ models' # models \/ conns' # conns) =>
                pc \in BuildCells /\ ~simulated /\ ~simulated'
           /\ calvars' # calvars => nodes = << >> /\ conns = EmptyBag
           /\ simulated' # simulated =>
                /\ pc = "simulate" /\ simulated'
                /\ nodes # << >> /\ BagCardinality(NetworkEdges) = (NE + NI) * (CE + CI)
           /\ (reads_ex' # reads_ex \/ reads_in' # reads_in) =>
                /\ simulated
                /\ reads_ex = 0 /\ reads_in = 0
                /\ reads_ex' = 1 /\ reads_in' = 1 ]_vars

C10_Witness ==
    /\ pc = "done"
    /\ simulated
    /\ reads_ex = 1 /\ reads_in = 1
    /\ BagCardinality(conns) > 0

====
